---- MODULE Spec2Model ----
(***************************************************************************)
(* State-machine model of log_analyzer.py: log discovery by filename date, *)
(* the line-by-line aggregation pass with its two parse-error checks, the  *)
(* statistics and their ranking, the report write, and the exit code the   *)
(* exception handlers of main() choose.                                    *)
(*                                                                         *)
(* Encodings.  A string that the program compares or converts is a tuple   *)
(* of numbers: a URL is the tuple of its code points ("/a" is <<47, 97>>), *)
(* the digits of a file name are a tuple of digits.  A request time is an  *)
(* integer number of 1/10000 s; the modelled request times are even, so    *)
(* that rounding to FLOAT_PRECITION decimals never meets an exact tie      *)
(* (where the binary value of the float would decide).                     *)
(***************************************************************************)
EXTENDS Integers, Sequences, FiniteSets, TLC

\* ------------------------------------------------------------------ bounds
MaxLines == 3
GateLines == 1010
MaxDirEntries == 3
MaxRuns == 2

\* ------------------------------------------------------- program constants
MAX_ERROR_COUNT == 100
\* MAX_ERROR_PERCENT = 0.1, kept as the fraction 1 / MAX_ERROR_PERCENT_DEN
MAX_ERROR_PERCENT_DEN == 10
FLOAT_PRECITION == 3
DEFAULT_REPORT_SIZE == 1000

LOG_PREFIX == "nginx-access-ui.log-"

LevelInfo == "INFO"
LevelError == "ERROR"

Min(a, b) == IF a < b THEN a ELSE b
Max(a, b) == IF a < b THEN b ELSE a

\* -------------------------------------------------------------- file names
\* A directory entry's name: the text before the run of digits, the run of
\* digits, and the text after it.
Name(stem, digits, ext) == [stem |-> stem, digits |-> digits, ext |-> ext]
NoName == Name("", <<>>, "")
DirEntry(name, is_file) == [name |-> name, is_file |-> is_file]

\* dir_entry.name.startswith('nginx-access-ui.log-')
StartsWithPrefix(name) == name.stem = LOG_PREFIX

\* log_file_regexp.match(name): the pattern is anchored at the start only, so
\* whatever follows the first 8 digits (more digits, any extension) matches.
RegexMatch(name) == name.stem = LOG_PREFIX /\ Len(name.digits) >= 8

\* matched.group('date')
DateGroup(name) == SubSeq(name.digits, 1, 8)

\* int(<digits>)
RECURSIVE ToInt(_)
ToInt(ds) ==
    IF ds = <<>> THEN 0
    ELSE 10 * ToInt(SubSeq(ds, 1, Len(ds) - 1)) + ds[Len(ds)]

\* str(<int>): no leading zeros
RECURSIVE ToStr(_)
ToStr(n) == IF n < 10 THEN <<n>> ELSE ToStr(n \div 10) \o <<n % 10>>

IsLeap(y) == (y % 4 = 0 /\ y % 100 # 0) \/ y % 400 = 0
DaysIn(m, y) ==
    IF m = 2 THEN (IF IsLeap(y) THEN 29 ELSE 28)
    ELSE IF m \in {4, 6, 9, 11} THEN 30 ELSE 31

NoDate == [y |-> 0, m |-> 0, d |-> 0]
Date(y, m, d) == [y |-> y, m |-> m, d |-> d]
IsCalendarDate(t) ==
    t.y >= 1 /\ t.m \in 1..12 /\ t.d >= 1 /\ t.d <= DaysIn(t.m, t.y)

\* The directive patterns of strptime: %m is 1[0-2]|0[1-9]|[1-9] and
\* %d is 3[0-1]|[1-2]\d|0[1-9]|[1-9]
Month2(a, b) == (a = 1 /\ b \in 0..2) \/ (a = 0 /\ b \in 1..9)
Day2(a, b) == (a = 3 /\ b \in 0..1) \/ (a \in 1..2) \/ (a = 0 /\ b \in 1..9)

\* datetime.strptime(s, "%Y%m%d") on a string of digits: the first match of
\* \d\d\d\d, %m, %d that the regex engine finds must consume the whole string
\* and name a calendar date; NoDate stands for ValueError.
Strptime(s) ==
    LET y == ToInt(SubSeq(s, 1, 4))
        fields ==
            IF Len(s) = 8 THEN
                IF Month2(s[5], s[6]) /\ Day2(s[7], s[8])
                THEN Date(y, 10 * s[5] + s[6], 10 * s[7] + s[8]) ELSE NoDate
            ELSE IF Len(s) = 7 THEN
                IF Month2(s[5], s[6]) /\ s[7] \in 1..9
                THEN Date(y, 10 * s[5] + s[6], s[7])
                ELSE IF ~Month2(s[5], s[6]) /\ s[5] \in 1..9 /\ Day2(s[6], s[7])
                THEN Date(y, s[5], 10 * s[6] + s[7])
                ELSE IF Month2(s[5], s[6]) /\ s[7] = 0 /\ s[5] \in 1..9
                        /\ Day2(s[6], s[7])
                THEN Date(y, s[5], 10 * s[6] + s[7])
                ELSE NoDate
            ELSE IF Len(s) = 6 THEN
                IF s[5] \in 1..9 /\ s[6] \in 1..9
                THEN Date(y, s[5], s[6]) ELSE NoDate
            ELSE NoDate
    IN  IF IsCalendarDate(fields) THEN fields ELSE NoDate

\* dt.strftime("%Y.%m.%d") inside "report-%s.html": the report's name is a
\* function of the date only, kept here as the number YYYYMMDD.
ReportName(dt) == dt.y * 10000 + dt.m * 100 + dt.d

\* ---------------------------------------------------------------- discovery
NoLogFile == [filename |-> NoName, date |-> 0]

\* The loop of get_last_log_filename over os.scandir's entries, in the order
\* the scan yields them.
RECURSIVE ScanLoop(_, _, _)
ScanLoop(entries, log_filename, last_log_date) ==
    IF entries = <<>>
    THEN [filename |-> log_filename, date |-> last_log_date]
    ELSE LET e == Head(entries)
         IN IF /\ e.is_file
               /\ StartsWithPrefix(e.name)
               /\ RegexMatch(e.name)
               /\ ToInt(DateGroup(e.name)) > last_log_date
            THEN ScanLoop(Tail(entries), e.name, ToInt(DateGroup(e.name)))
            ELSE ScanLoop(Tail(entries), log_filename, last_log_date)

GetLastLogFilename(entries) == ScanLoop(entries, NoName, 0)

\* --------------------------------------------------------------- log lines
\* What log_line_pattern.match(line) yields for one line: no match, or the
\* groups "request" and float(group "request_time").
MatchedLine(request, request_time) ==
    [matched |-> TRUE, request |-> request, request_time |-> request_time]
ErrorLine == [matched |-> FALSE, request |-> <<>>, request_time |-> 0]

\* ------------------------------------------------- the dict of request times
\* urls is a dict: here the sequence of its items in insertion order.
DictKeys(d) == {d[i].url : i \in DOMAIN d}
DictGet(d, k) == (CHOOSE i \in DOMAIN d : d[i].url = k)

\* if url not in urls: urls[url] = []; urls[url].append(url_time)
DictAppend(d, k, v) ==
    IF k \in DictKeys(d)
    THEN [d EXCEPT ![DictGet(d, k)].times = Append(@, v)]
    ELSE Append(d, [url |-> k, times |-> <<v>>])

\* --------------------------------------------------------------- statistics
\* sum(lst) and max(lst), taken by halves: the times are integers here, so
\* the order of the additions does not change the sum.
RECURSIVE Sum(_)
Sum(lst) ==
    IF lst = <<>> THEN 0
    ELSE IF Len(lst) = 1 THEN lst[1]
    ELSE LET h == Len(lst) \div 2
         IN  Sum(SubSeq(lst, 1, h)) + Sum(SubSeq(lst, h + 1, Len(lst)))

RECURSIVE MaxOf(_)
MaxOf(lst) ==
    IF Len(lst) = 1 THEN lst[1]
    ELSE LET h == Len(lst) \div 2
         IN  Max(MaxOf(SubSeq(lst, 1, h)), MaxOf(SubSeq(lst, h + 1, Len(lst))))

\* round(x, FLOAT_PRECITION) of a time held in 1/10000 s.  An exact tie has
\* no case here: the modelled times never produce one.
RoundTime(x) ==
    LET unit == 10 ^ (4 - FLOAT_PRECITION)
        r == x % unit
    IN  CASE 2 * r < unit -> x - r
          [] 2 * r > unit -> x - r + unit

\* One url_stat of calculate_statistics: the fields the ranking and the report
\* rows are built from.  count_perc, time_perc, time_avg and time_med are left
\* out as values; StatisticsRaises keeps the divisions they make.
UrlStat(item) ==
    [url |-> item.url,
     count |-> Len(item.times),
     time_sum |-> RoundTime(Sum(item.times)),
     time_max |-> RoundTime(MaxOf(item.times))]

\* calculate_statistics: one url_stat per item of the dict, in dict order.
CalculateStatistics(d) == [i \in DOMAIN d |-> UrlStat(d[i])]

\* 100 * count / total_request_count and 100 * time_sum / total_request_time
\* raise ZeroDivisionError on a zero total; they run once per url.
StatisticsRaises(d, total_count, total_time) ==
    d # <<>> /\ (total_count = 0 \/ total_time = 0)

\* < on str: by code point, a proper prefix first
RECURSIVE StrLess(_, _)
StrLess(a, b) ==
    IF a = <<>> THEN b # <<>>
    ELSE IF b = <<>> THEN FALSE
    ELSE IF a[1] # b[1] THEN a[1] < b[1]
    ELSE StrLess(Tail(a), Tail(b))

\* the key of line 243, which line 244 replaced: time_sum alone
KeyLessTimeSumOnly(x, y) == x.time_sum < y.time_sum

\* < on the key operator.itemgetter('time_sum', 'url')
KeyLess(x, y) ==
    \/ x.time_sum < y.time_sum
    \/ (x.time_sum = y.time_sum /\ StrLess(x.url, y.url))

\* list.sort(key=..., reverse=True): descending, and stable (the items of equal
\* key keep their order).
RECURSIVE InsertDescending(_, _)
InsertDescending(sorted, x) ==
    IF sorted = <<>> THEN <<x>>
    ELSE IF KeyLess(Head(sorted), x) THEN <<x>> \o sorted
    ELSE <<Head(sorted)>> \o InsertDescending(Tail(sorted), x)

RECURSIVE SortReverse(_)
SortReverse(lst) ==
    IF lst = <<>> THEN <<>>
    ELSE InsertDescending(SortReverse(SubSeq(lst, 1, Len(lst) - 1)),
                          lst[Len(lst)])

\* statistic[:report_size]
SliceTo(lst, n) ==
    IF n >= 0 THEN SubSeq(lst, 1, Min(n, Len(lst)))
    ELSE SubSeq(lst, 1, Max(0, Len(lst) + n))

\* s.safe_substitute(table_json=json.dumps(statistic[:report_size], ...))
Render(stat, size) == SliceTo(stat, size)

\* ------------------------------------------------------------ the error checks
\* error_count > MAX_ERROR_COUNT, inside the loop
ErrorCountExceeded(errors) == errors > MAX_ERROR_COUNT

\* a gate at twice the fraction
ErrorRateExceededDoubled(lines, errors) ==
    lines # 0 /\ MAX_ERROR_PERCENT_DEN * errors > 2 * lines

\* line_count and error_count/line_count > MAX_ERROR_PERCENT, after the loop
ErrorRateExceeded(lines, errors) ==
    lines # 0 /\ MAX_ERROR_PERCENT_DEN * errors > lines

\* ---------------------------------------------------------------- exceptions
Exc(type, level, kind) == [type |-> type, level |-> level, kind |-> kind]
NoLevel == "-"
KeyboardInterrupt == Exc("KeyboardInterrupt", NoLevel, "Interrupted")
DirectoryNotFound == Exc("FileNotFoundError", NoLevel, "DirectoryNotFound")
NoLogFound == Exc("RuntimeError", LevelInfo, "NoLogFound")
MalformedLogDate == Exc("RuntimeError", LevelError, "MalformedLogDate")
ReportDirFailed == Exc("FileNotFoundError", NoLevel, "ReportDirFailed")
ReportExists == Exc("RuntimeError", LevelInfo, "ReportExists")
\* line 233: the message's "$s" takes no argument, so building the
\* RuntimeError raises TypeError instead
TooManyErrorLines == Exc("TypeError", NoLevel, "ErrorCountExceeded")
ExcessiveParseErrors == Exc("RuntimeError", LevelError, "ExcessiveParseErrors")
ZeroDivision == Exc("ZeroDivisionError", NoLevel, "ZeroDivisionError")
TemplateNotFound == Exc("RuntimeError", LevelError, "TemplateNotFound")
ReportWriteFailed(type) == Exc(type, NoLevel, "ReportWriteFailed")

\* handlers that exit 0 whatever the level
ExitCodeIgnoringLevel(exc) ==
    IF exc.type = "KeyboardInterrupt" THEN 2
    ELSE IF exc.type = "RuntimeError" THEN 0
    ELSE IF exc.type = "FileNotFoundError" THEN 2
    ELSE 1

\* The except clauses of main(), in their order.  A RuntimeError of neither
\* level leaves the handler without sys.exit: the process ends with 0.
ExitCode(exc) ==
    IF exc.type = "KeyboardInterrupt" THEN 2
    ELSE IF exc.type = "RuntimeError" THEN
        (IF exc.level = LevelError THEN 1 ELSE 0)
    ELSE IF exc.type = "FileNotFoundError" THEN 2
    ELSE 1

\* -------------------------------------------------------------------- state
VARIABLES
    \* the environment: the file system and the configuration
    log_dir_exists,     \* os.path.isdir(LOG_DIR)
    scan,               \* the entries of LOG_DIR, in os.scandir's order
    log_len,            \* the number of lines of the log file
    log_lines,          \* the lines the log file is made of
    template_exists,    \* ./report.html can be read
    jquery_src,         \* ./jquery.tablesorter.min.js exists
    report_size,        \* config['REPORT_SIZE']
    report_dir_exists,  \* os.path.isdir(REPORT_DIR)
    jquery_dest,        \* REPORT_DIR/jquery.tablesorter.min.js exists
    report_files,       \* report name -> the file's content
    \* one run of main()
    pc,
    run,
    logfile,
    report_filename,
    log_opened,
    urls,
    line_count,
    error_count,
    total_request_count,
    total_request_time,
    statistic,
    report_string,
    exit_code,
    outcome,
    wrote_report,
    files_at_start      \* report_files as the run found it

env == <<log_dir_exists, scan, log_len, log_lines, template_exists,
         jquery_src, report_size>>
fs == <<report_dir_exists, jquery_dest, report_files>>
counters == <<urls, line_count, error_count, total_request_count,
              total_request_time>>
vars == <<env, fs, counters, pc, run, logfile, report_filename, log_opened,
          statistic, report_string, exit_code, outcome, wrote_report,
          files_at_start>>

NoExit == 0 - 1
Running == "Running"
NoReportName == ReportName(NoDate)
FileContent(text, complete) == [text |-> text, complete |-> complete]

\* ------------------------------------------------------- the modelled inputs
UrlA == <<47, 97>>          \* "/a"
UrlB == <<47, 98>>          \* "/b"
UrlUpperB == <<47, 66>>     \* "/B"
Endpoints == {UrlA, UrlB, UrlUpperB}
\* 0.0, 0.0004 and 0.005 s
Durations == {0, 4, 50}
AllLines ==
    {MatchedLine(u, t) : u \in Endpoints, t \in Durations} \cup {ErrorLine}
TwoLines == {MatchedLine(UrlA, 50), ErrorLine}

Log20170630 == Name(LOG_PREFIX, <<2, 0, 1, 7, 0, 6, 3, 0>>, "")
Log20170630Gz == Name(LOG_PREFIX, <<2, 0, 1, 7, 0, 6, 3, 0>>, ".gz")
Log20180101Gz == Name(LOG_PREFIX, <<2, 0, 1, 8, 0, 1, 0, 1>>, ".gz")
Log20170631 == Name(LOG_PREFIX, <<2, 0, 1, 7, 0, 6, 3, 1>>, "")
Log00000000 == Name(LOG_PREFIX, <<0, 0, 0, 0, 0, 0, 0, 0>>, "")
Log02017063 == Name(LOG_PREFIX, <<0, 2, 0, 1, 7, 0, 6, 3>>, "")
Log20190101Bz2 == Name(LOG_PREFIX, <<2, 0, 1, 9, 0, 1, 0, 1>>, ".bz2")
Other20200101 == Name("access.log-", <<2, 0, 2, 0, 0, 1, 0, 1>>, "")
Log20210101 == Name(LOG_PREFIX, <<2, 0, 2, 1, 0, 1, 0, 1>>, "")

Entries ==
    {DirEntry(n, TRUE) :
        n \in {Log20170630, Log20170630Gz, Log20180101Gz, Log20170631,
               Log00000000, Log02017063, Log20190101Bz2, Other20200101}}
    \cup {DirEntry(Log20210101, FALSE)}

\* the directories of at most n entries, in every scan order
Scans(n) ==
    {s \in UNION {[1..k -> Entries] : k \in 0..n} :
        \A i, j \in DOMAIN s : i # j => s[i] # s[j]}

FewScans ==
    {<<>>, <<DirEntry(Log20170630, TRUE)>>, <<DirEntry(Log20170631, TRUE)>>}

\* --------------------------------------------------------------------- Init
InitRun ==
    /\ pc = "start"
    /\ logfile = NoLogFile
    /\ report_filename = NoReportName
    /\ log_opened = FALSE
    /\ urls = <<>>
    /\ line_count = 0
    /\ error_count = 0
    /\ total_request_count = 0
    /\ total_request_time = 0
    /\ statistic = <<>>
    /\ report_string = <<>>
    /\ exit_code = NoExit
    /\ outcome = Running
    /\ wrote_report = FALSE

InitFiles ==
    /\ jquery_dest = FALSE
    /\ report_files = [n \in {} |-> FileContent(<<>>, TRUE)]
    /\ files_at_start = report_files
    /\ run = 1

\* short logs of every line, a few directories, every environment
Init ==
    /\ log_dir_exists \in BOOLEAN
    /\ scan \in FewScans
    /\ log_len \in 0..MaxLines
    /\ log_lines = AllLines
    /\ template_exists \in BOOLEAN
    /\ jquery_src \in BOOLEAN
    /\ report_size \in {1, DEFAULT_REPORT_SIZE}
    /\ report_dir_exists \in BOOLEAN
    /\ InitFiles
    /\ InitRun

\* every directory, a log of one line
InitDiscovery ==
    /\ log_dir_exists \in BOOLEAN
    /\ scan \in Scans(MaxDirEntries)
    /\ log_len = 1
    /\ log_lines = TwoLines
    /\ template_exists = TRUE
    /\ jquery_src = TRUE
    /\ report_size = DEFAULT_REPORT_SIZE
    /\ report_dir_exists = TRUE
    /\ InitFiles
    /\ InitRun

\* one log file, long enough for both error checks
InitGate ==
    /\ log_dir_exists = TRUE
    /\ scan = <<DirEntry(Log20170630, TRUE)>>
    /\ log_len \in {MAX_ERROR_COUNT, GateLines}
    /\ log_lines = TwoLines
    /\ template_exists = TRUE
    /\ jquery_src = TRUE
    /\ report_size = DEFAULT_REPORT_SIZE
    /\ report_dir_exists = TRUE
    /\ InitFiles
    /\ InitRun

\* ------------------------------------------------------------------ actions
\* An exception reaches the handlers of main(): the process exits.
Raise(exc) ==
    /\ pc' = "done"
    /\ exit_code' = ExitCode(exc)
    /\ outcome' = exc.kind

\* line 200: get_last_log_filename(config["LOG_DIR"])
GetLastLog ==
    /\ pc = "start"
    /\ IF ~log_dir_exists
       THEN Raise(DirectoryNotFound) /\ UNCHANGED logfile
       ELSE LET found == GetLastLogFilename(scan)
            IN  IF found.filename = NoName
                THEN Raise(NoLogFound) /\ UNCHANGED logfile
                ELSE /\ logfile' = found
                     /\ pc' = "found"
                     /\ UNCHANGED <<exit_code, outcome>>
    /\ UNCHANGED <<env, fs, counters, run, report_filename, log_opened,
                   statistic, report_string, wrote_report, files_at_start>>

\* lines 204-207: datetime.strptime(str(logfile.date), "%Y%m%d")
ParseLogDate ==
    /\ pc = "found"
    /\ LET report_dt == Strptime(ToStr(logfile.date))
       IN  IF report_dt = NoDate
           THEN Raise(MalformedLogDate) /\ UNCHANGED report_filename
           ELSE /\ report_filename' = ReportName(report_dt)
                /\ pc' = "dated"
                /\ UNCHANGED <<exit_code, outcome>>
    /\ UNCHANGED <<env, fs, counters, run, logfile, log_opened, statistic,
                   report_string, wrote_report, files_at_start>>

\* line 209: prepare_report_dir(config['REPORT_DIR'])
PrepareReportDir ==
    /\ pc = "dated"
    /\ report_dir_exists' = TRUE
    /\ IF jquery_dest
       THEN pc' = "prepared" /\ UNCHANGED <<jquery_dest, exit_code, outcome>>
       ELSE IF jquery_src
       THEN /\ jquery_dest' = TRUE
            /\ pc' = "prepared"
            /\ UNCHANGED <<exit_code, outcome>>
       ELSE Raise(ReportDirFailed) /\ UNCHANGED jquery_dest
    /\ UNCHANGED <<env, report_files, counters, run, logfile, report_filename,
                   log_opened, statistic, report_string, wrote_report,
                   files_at_start>>

\* a build_report_filepath without its os.path.exists check
BuildReportFilepathUnchecked ==
    /\ pc = "prepared"
    /\ pc' = "named"
    /\ UNCHANGED <<env, fs, counters, run, logfile, report_filename,
                   log_opened, statistic, report_string, wrote_report,
                   files_at_start, exit_code, outcome>>

\* line 210: build_report_filepath(config['REPORT_DIR'], report_dt)
BuildReportFilepath ==
    /\ pc = "prepared"
    /\ IF report_filename \in DOMAIN report_files
       THEN Raise(ReportExists)
       ELSE pc' = "named" /\ UNCHANGED <<exit_code, outcome>>
    /\ UNCHANGED <<env, fs, counters, run, logfile, report_filename,
                   log_opened, statistic, report_string, wrote_report,
                   files_at_start>>

\* lines 213-217: the counters are set and the log file is opened
OpenLog ==
    /\ pc = "named"
    /\ log_opened' = TRUE
    /\ urls' = <<>>
    /\ line_count' = 0
    /\ error_count' = 0
    /\ total_request_count' = 0
    /\ total_request_time' = 0
    /\ pc' = "reading"
    /\ UNCHANGED <<env, fs, run, logfile, report_filename, statistic,
                   report_string, exit_code, outcome, wrote_report,
                   files_at_start>>

\* lines 219-234: one turn of the loop over read_log(file); at the end of the
\* file the loop ends.
ReadLine ==
    /\ pc = "reading"
    /\ IF line_count >= log_len
       THEN /\ pc' = "gate"
            /\ UNCHANGED <<counters, exit_code, outcome>>
       ELSE \E line \in log_lines :
            IF line.matched
            THEN /\ urls' = DictAppend(urls, line.request, line.request_time)
                 /\ total_request_time' = total_request_time + line.request_time
                 /\ total_request_count' = total_request_count + 1
                 /\ line_count' = line_count + 1
                 /\ UNCHANGED <<error_count, pc, exit_code, outcome>>
            ELSE /\ error_count' = error_count + 1
                 /\ UNCHANGED <<urls, total_request_count, total_request_time>>
                 /\ IF ErrorCountExceeded(error_count + 1)
                    THEN Raise(TooManyErrorLines) /\ UNCHANGED line_count
                    ELSE /\ line_count' = line_count + 1
                         /\ UNCHANGED <<pc, exit_code, outcome>>
    /\ UNCHANGED <<env, fs, run, logfile, report_filename, log_opened,
                   statistic, report_string, wrote_report, files_at_start>>

\* lines 237-239: the check of the error rate after the loop
ErrorGate ==
    /\ pc = "gate"
    /\ IF ErrorRateExceeded(line_count, error_count)
       THEN Raise(ExcessiveParseErrors)
       ELSE pc' = "stats" /\ UNCHANGED <<exit_code, outcome>>
    /\ UNCHANGED <<env, fs, counters, run, logfile, report_filename,
                   log_opened, statistic, report_string, wrote_report,
                   files_at_start>>

\* lines 242-244: calculate_statistics, then statistic.sort
Statistics ==
    /\ pc = "stats"
    /\ IF StatisticsRaises(urls, total_request_count, total_request_time)
       THEN Raise(ZeroDivision) /\ UNCHANGED statistic
       ELSE /\ statistic' = SortReverse(CalculateStatistics(urls))
            /\ pc' = "ranked"
            /\ UNCHANGED <<exit_code, outcome>>
    /\ UNCHANGED <<env, fs, counters, run, logfile, report_filename,
                   log_opened, report_string, wrote_report, files_at_start>>

\* lines 163-170 of write_report: the template is read and filled
RenderReport ==
    /\ pc = "ranked"
    /\ IF ~template_exists
       THEN Raise(TemplateNotFound) /\ UNCHANGED report_string
       ELSE /\ report_string' = Render(statistic, report_size)
            /\ pc' = "rendered"
            /\ UNCHANGED <<exit_code, outcome>>
    /\ UNCHANGED <<env, fs, counters, run, logfile, report_filename,
                   log_opened, statistic, wrote_report, files_at_start>>

\* line 171: open(report_filename, 'wt+') creates the file, or empties it; it
\* fails with FileNotFoundError or with another OSError.
OpenReport ==
    /\ pc = "rendered"
    /\ \E io \in {"ok", "FileNotFoundError", "PermissionError"} :
        IF io = "ok"
        THEN /\ report_files' =
                    [n \in DOMAIN report_files \cup {report_filename} |->
                        IF n = report_filename THEN FileContent(<<>>, FALSE)
                        ELSE report_files[n]]
             /\ pc' = "opened"
             /\ UNCHANGED <<exit_code, outcome>>
        ELSE Raise(ReportWriteFailed(io)) /\ UNCHANGED report_files
    /\ UNCHANGED <<env, report_dir_exists, jquery_dest, counters, run, logfile,
                   report_filename, log_opened, statistic, report_string,
                   wrote_report, files_at_start>>

\* line 172 and the end of the with block: the text is written and the file
\* closed, or the write fails (OSError) and the file stays as it is; then
\* main() returns.
WriteReport ==
    /\ pc = "opened"
    /\ \E io \in {"ok", "OSError"} :
        IF io = "ok"
        THEN /\ report_files' =
                    [report_files EXCEPT
                        ![report_filename] = FileContent(report_string, TRUE)]
             /\ wrote_report' = TRUE
             /\ pc' = "done"
             /\ exit_code' = 0
             /\ outcome' = "Done"
        ELSE Raise(ReportWriteFailed(io))
             /\ UNCHANGED <<report_files, wrote_report>>
    /\ UNCHANGED <<env, report_dir_exists, jquery_dest, counters, run, logfile,
                   report_filename, log_opened, statistic, report_string,
                   files_at_start>>

\* lines 251-253: Ctrl+C at any point of the run
Interrupt ==
    /\ pc # "done"
    /\ Raise(KeyboardInterrupt)
    /\ UNCHANGED <<env, fs, counters, run, logfile, report_filename,
                   log_opened, statistic, report_string, wrote_report,
                   files_at_start>>

\* the program is invoked again, on the file system the last run left
StartRun ==
    /\ pc = "done"
    /\ run < MaxRuns
    /\ run' = run + 1
    /\ files_at_start' = report_files
    /\ pc' = "start"
    /\ logfile' = NoLogFile
    /\ report_filename' = NoReportName
    /\ log_opened' = FALSE
    /\ urls' = <<>>
    /\ line_count' = 0
    /\ error_count' = 0
    /\ total_request_count' = 0
    /\ total_request_time' = 0
    /\ statistic' = <<>>
    /\ report_string' = <<>>
    /\ exit_code' = NoExit
    /\ outcome' = Running
    /\ wrote_report' = FALSE
    /\ UNCHANGED <<env, fs>>

Next ==
    \/ GetLastLog
    \/ ParseLogDate
    \/ PrepareReportDir
    \/ BuildReportFilepath
    \/ OpenLog
    \/ ReadLine
    \/ ErrorGate
    \/ Statistics
    \/ RenderReport
    \/ OpenReport
    \/ WriteReport
    \/ Interrupt
    \/ StartRun

Spec == Init /\ [][Next]_vars
SpecDiscovery == InitDiscovery /\ [][Next]_vars
SpecGate == InitGate /\ [][Next]_vars

\* ------------------------------------------------------------ the properties
\* What the claims speak of, stated apart from the code's own tests.

\* a regular file named exactly nginx-access-ui.log-<8 digits>[.gz]
IsCandidate(e) ==
    /\ e.is_file
    /\ e.name.stem = LOG_PREFIX
    /\ Len(e.name.digits) = 8
    /\ e.name.ext \in {"", ".gz"}
Candidates == {scan[i] : i \in {j \in DOMAIN scan : IsCandidate(scan[j])}}

\* the 8 digits read as YYYYMMDD name a calendar date
ValidYYYYMMDD(ds) ==
    IsCalendarDate(Date(ToInt(SubSeq(ds, 1, 4)), ToInt(SubSeq(ds, 5, 6)),
                        ToInt(SubSeq(ds, 7, 8))))

\* totalErrors / totalLines is above 0.1
RatioAboveTenth(lines, errors) == lines > 0 /\ 10 * errors > lines

\* the lines the pass has taken from the file: the line that raises inside the
\* loop is read and not counted
LinesRead == line_count + (IF outcome = "ErrorCountExceeded" THEN 1 ELSE 0)
FailedOnParseErrors ==
    pc = "done" /\ outcome \in {"ErrorCountExceeded", "ExcessiveParseErrors"}
NoReportWritten == ~wrote_report /\ report_files = files_at_start

\* C1: a run that read the whole log is failed because of parse errors only if
\* the log's totalErrors / totalLines is above 0.1 (the ratio alone decides).
C1_RatioOnlyDecides ==
    (FailedOnParseErrors /\ LinesRead = log_len)
        => RatioAboveTenth(LinesRead, error_count)

\* C2: when any candidate file of the directory carries 8 digits that are not
\* a calendar date, discovery has failed: the run resolves no log date and
\* goes no further.
C2_AnyMalformedDateFails ==
    (log_dir_exists /\ \E c \in Candidates : ~ValidYYYYMMDD(c.name.digits))
        => report_filename = NoReportName

\* C3: in every state the file at a report's final path, if there is one,
\* holds a complete report.
C3_ReportNeverPartial ==
    \A n \in DOMAIN report_files : report_files[n].complete

\* what a run that exits 0 has done, by C4
WroteOrFoundReport ==
    /\ report_filename # NoReportName
    /\ \/ /\ wrote_report
          /\ report_files[report_filename] = FileContent(report_string, TRUE)
       \/ /\ ~log_opened
          /\ report_filename \in DOMAIN files_at_start
          /\ NoReportWritten
CoreFailures ==
    {"DirectoryNotFound", "MalformedLogDate", "ExcessiveParseErrors",
     "ErrorCountExceeded", "TemplateNotFound", "ReportWriteFailed"}

C5_ExistingReportShortCircuits ==
    /\ (report_filename # NoReportName
            /\ report_filename \in DOMAIN files_at_start)
         => /\ ~log_opened
            /\ line_count = 0
            /\ NoReportWritten
            /\ (pc = "done" /\ outcome # "Interrupted")
                  => (exit_code = 0 /\ outcome = "ReportExists")
    /\ (run > 1 /\ DOMAIN files_at_start # {})
         => (~log_opened /\ NoReportWritten)
C5_Witness ==
    /\ run = 2
    /\ pc = "done"
    /\ outcome = "ReportExists"
    /\ exit_code = 0
    /\ files_at_start[report_filename].complete

\* the pass is over and the run was not interrupted
PassOver == log_opened /\ pc \notin {"reading", "gate"} /\ outcome # "Interrupted"

C7_DiscoveryReturnsLatestCandidate ==
    log_dir_exists =>
        /\ outcome = "NoLogFound" => Candidates = {}
        /\ logfile # NoLogFile =>
            /\ DirEntry(logfile.filename, TRUE) \in Candidates
            /\ \A c \in Candidates :
                    ToInt(c.name.digits) <= ToInt(logfile.filename.digits)

\* C8: a step of the pass that counts a non-matching line adds one to
\* totalLines too, leaves totalMatched, totalDurationSeconds and the duration
\* map as they are, keeps the pass going, and leaves
\* totalLines = totalMatched + totalErrors.
C8_ErrorLineCountedAndSkipped ==
    [][error_count' = error_count + 1 =>
          /\ line_count' = line_count + 1
          /\ UNCHANGED <<urls, total_request_count, total_request_time>>
          /\ pc' = "reading"
          /\ line_count' = total_request_count' + error_count']_vars

\* the run holds its ranked statistics
StatisticsDone == pc \in {"ranked", "rendered", "opened"} \/ wrote_report
InsertionOrders(n) ==
    {p \in [1..n -> 1..n] : \A i, j \in 1..n : i # j => p[i] # p[j]}
RankedDescending(stat) ==
    \A i, j \in DOMAIN stat : i < j =>
        \/ stat[i].time_sum > stat[j].time_sum
        \/ /\ stat[i].time_sum = stat[j].time_sum
           /\ StrLess(stat[j].url, stat[i].url)

\* C9: the ranked list holds one entry per endpoint of the map, by descending
\* timeSum and, at equal timeSum, by descending endpoint name; it is the same
\* for every insertion order of the map; and the report holds exactly its
\* first min(N, number of endpoints) entries.
C9_RankingDeterministic ==
    StatisticsDone =>
        /\ RankedDescending(statistic)
        /\ Len(statistic) = Len(urls)
        /\ {statistic[i] : i \in DOMAIN statistic}
              = {UrlStat(urls[i]) : i \in DOMAIN urls}
        /\ \A p \in InsertionOrders(Len(urls)) :
              SortReverse(CalculateStatistics(
                  [i \in DOMAIN urls |-> urls[p[i]]])) = statistic
        /\ pc \in {"rendered", "opened"} \/ wrote_report =>
              report_string =
                  SubSeq(statistic, 1, Min(report_size, Len(statistic)))
        /\ wrote_report =>
              report_files[report_filename].text =
                  SubSeq(statistic, 1, Min(report_size, Len(statistic)))
C9_Witness ==
    /\ wrote_report
    /\ report_size = 1
    /\ urls = <<[url |-> UrlA, times |-> <<50>>],
                [url |-> UrlB, times |-> <<50>>]>>
    /\ Len(statistic) = 2
    /\ statistic[1].url = UrlB
    /\ statistic[2].url = UrlA
    /\ Len(report_files[report_filename].text) = 1

\* C10: a run that is at or past its statistics step has totalMatched > 0 and
\* totalDurationSeconds > 0.
C10_StatisticsNeverOnEmptyAggregate ==
    (pc \in {"stats", "ranked", "rendered", "opened"} \/ wrote_report)
        => (total_request_count > 0 /\ total_request_time > 0)

====
